---- MODULE Spec2Model ----
(***************************************************************************)
(* app-store-scraper: the six read-only operations (search, app, ratings,  *)
(* versionHistory, privacy, suggest) as one call at a time.  A call starts *)
(* in "idle", runs its synchronous code up to the next await of a          *)
(* transport request, and resumes when the request returns.  Upstream      *)
(* bodies are inputs of the resuming action.                               *)
(*                                                                         *)
(* Optional JavaScript values (a missing option, undefined) are sequences  *)
(* of length 0 or 1: <<>> is undefined, <<v>> is the value v.  Text that   *)
(* is parsed (element text, labels) is a sequence of characters.           *)
(***************************************************************************)
EXTENDS Integers, Sequences, FiniteSets, TLC

VARIABLES
    op,         \* the operation of the current call
    pc,         \* its position: "idle", an await point, "done" or "failed"
    opts,       \* the options object the call was given
    requests,   \* the transport requests issued so far, in order
    outcome,    \* "none" while running, "ok", or the error the call threw
    upstream,   \* search: response.results as upstream sent it
    found,      \* search: the App[] returned
    ids,        \* search: the number[] returned in idsOnly mode
    html,       \* ratings: the body of the ratings page as received
    ratingsData,    \* ratings: the Ratings object returned (None until then)
    privacyPage,    \* privacy: the app page as received
    privacyResult,  \* privacy: the PrivacyDetails object returned
    apps,           \* app: what lookup() returned (None: nothing yet, or it threw)
    appData,        \* app: the record being completed and returned
    scrapePage,     \* app: the app page scrapeScreenshots received
    scraped,        \* app: what scrapeScreenshots returned (None: not called)
    caught,         \* app: the exceptions swallowed by a catch block, in order
    articles,       \* versionHistory: the articles of the dialog as received
    versions,       \* versionHistory: the VersionHistory[] returned
    hints,          \* suggest: the validated property list
    suggestions     \* suggest: the Suggestion[] returned

vars == <<op, pc, opts, requests, outcome, upstream, found, ids,
          html, ratingsData, privacyPage, privacyResult,
          apps, appData, scrapePage, scraped, caught,
          articles, versions, hints, suggestions>>

searchVars == <<upstream, found, ids>>

ratingsVars == <<html, ratingsData>>

privacyVars == <<privacyPage, privacyResult>>

appVars == <<apps, appData, scrapePage, scraped, caught>>

historyVars == <<articles, versions>>

suggestVars == <<hints, suggestions>>

notSearch == <<ratingsVars, privacyVars, appVars, historyVars, suggestVars>>

notRatings == <<searchVars, privacyVars, appVars, historyVars, suggestVars>>

notPrivacy == <<searchVars, ratingsVars, appVars, historyVars, suggestVars>>

notApp == <<searchVars, privacyVars, historyVars, suggestVars>>

notHistory == <<searchVars, ratingsVars, privacyVars, appVars, suggestVars>>

notSuggest == <<searchVars, ratingsVars, privacyVars, appVars, historyVars>>

(***************************************************************************)
(* Bounds.                                                                 *)
(***************************************************************************)
MaxResults == 4     \* longest upstream result sequence
MaxNum == 2         \* largest explicit page size
MaxPage == 3        \* largest explicit page number
MaxVotes == 6       \* most `.vote .total` elements on a ratings page
MaxLinks == 2       \* most external links in the privacy dialog
MaxSections == 2    \* most purpose sections in the privacy dialog
MaxCategories == 3  \* most category items in the privacy dialog, all sections
MaxApps == 2        \* most entries in a lookup response
MaxSources == 2     \* most screenshot <source> elements on an app page
MaxArticles == 2    \* most articles in the version history dialog
MaxDicts == 3       \* most dict entries in an autocomplete response

(***************************************************************************)
(* JavaScript helpers.                                                     *)
(***************************************************************************)
None == <<>>

Some(v) == <<v>>

\* mutant: the check of the required string is lost
TruthyStrAlways(o) == TRUE

\* !x is false: a defined, non-empty string
TruthyStr(o) == o # <<>> /\ o[1] # ""

\* !x is false: a defined, non-zero number
TruthyNum(o) == o # <<>> /\ o[1] # 0

\* destructuring default: `x = d`
OrDefault(o, d) == IF o = <<>> THEN d ELSE o[1]

Min(a, b) == IF a <= b THEN a ELSE b

Max(a, b) == IF a >= b THEN a ELSE b

\* Array.prototype.slice(start, end) for 0 <= start <= end
Slice(s, start, end) ==
    LET lo == Min(start, Len(s))
        hi == Min(end, Len(s))
    IN  [i \in 1..(hi - lo) |-> s[lo + i]]

\* Array.prototype.filter
Filter(s, P(_)) == SelectSeq(s, P)

\* Array.prototype.map
Map(s, F(_)) == [i \in 1..Len(s) |-> F(s[i])]

\* the options object; every operation reads only its own fields
NoOpts ==
    [term |-> None, id |-> None, appId |-> None, num |-> None, page |-> None,
     idsOnly |-> FALSE, ratings |-> FALSE]

Request(kind, limit) == [kind |-> kind, limit |-> limit]

(***************************************************************************)
(* search                                                                  *)
(***************************************************************************)
DefaultNum == 50

DefaultPage == 1

Kinds == {"software", "other"}

\* an upstream entry; trackName tags the entry with its upstream position
Entry(i, kind, hasId) ==
    [kind |-> kind, trackId |-> IF hasId THEN Some(100 + i) ELSE None,
     trackName |-> i]

ResultLists ==
    UNION {{[i \in 1..n |-> Entry(i, k[i], h[i])] :
                k \in [1..n -> Kinds], h \in [1..n -> BOOLEAN]} :
           n \in 0..MaxResults}

\* what doRequest + JSON.parse + safeParse can produce
SearchResponses ==
    {[status |-> "error", results |-> <<>>],
     [status |-> "invalid", results |-> <<>>]}
    \cup {[status |-> "ok", results |-> r] : r \in ResultLists}

SearchOptions ==
    {[NoOpts EXCEPT !.term = t, !.num = n, !.page = p, !.idsOnly = b] :
        t \in {None, Some(""), Some("min")},
        n \in {None} \cup {Some(k) : k \in 1..MaxNum},
        p \in {None} \cup {Some(k) : k \in 1..MaxPage},
        b \in BOOLEAN}

Num(o) == OrDefault(o.num, DefaultNum)

Page(o) == OrDefault(o.page, DefaultPage)

Limit(o) == Page(o) * Num(o)

IsSoftware(e) == e.kind = "software"

AllResults(results) == Filter(results, IsSoftware)

PageStart(o) == (Page(o) - 1) * Num(o)

\* mutant: the window is cut from the raw results and filtered afterwards
PaginatedResultsRaw(o, results) ==
    AllResults(Slice(results, PageStart(o), PageStart(o) + Num(o)))

PaginatedResults(o, results) ==
    Slice(AllResults(results), PageStart(o), PageStart(o) + Num(o))

CleanApp(e) == [id |-> e.trackId, title |-> e.trackName]

HasTrackId(e) == e.trackId # None

TrackIdOf(e) == e.trackId[1]

IdsOf(entries) == Map(Filter(entries, HasTrackId), TrackIdOf)

\* search(): up to `await doRequest`
SearchCall(o) ==
    /\ pc = "idle"
    /\ op' = "search"
    /\ opts' = o
    /\ IF ~TruthyStr(o.term)
       THEN /\ outcome' = "term is required"
            /\ pc' = "failed"
            /\ requests' = requests
       ELSE /\ outcome' = outcome
            /\ pc' = "awaitSearch"
            /\ requests' = Append(requests, Request("search", Limit(o)))
    /\ UNCHANGED <<searchVars, notSearch>>

\* search(): from the return of doRequest to the end
SearchReturn(resp) ==
    /\ pc = "awaitSearch"
    /\ upstream' = resp.results
    /\ IF resp.status = "error"
       THEN /\ outcome' = "transport error"
            /\ pc' = "failed"
            /\ UNCHANGED <<found, ids>>
       ELSE IF resp.status = "invalid"
       THEN /\ outcome' = "Search API response validation failed"
            /\ pc' = "failed"
            /\ UNCHANGED <<found, ids>>
       ELSE /\ outcome' = "ok"
            /\ pc' = "done"
            /\ IF opts.idsOnly
               THEN /\ ids' = IdsOf(PaginatedResults(opts, resp.results))
                    /\ found' = found
               ELSE /\ found' = Map(PaginatedResults(opts, resp.results), CleanApp)
                    /\ ids' = ids
    /\ UNCHANGED <<op, opts, requests, notSearch>>

(***************************************************************************)
(* ratings                                                                 *)
(***************************************************************************)
DigitChars == {"0", "1", "2", "3", "4", "5", "6", "7", "8", "9"}

DigitVal(c) ==
    CASE c = "0" -> 0 [] c = "1" -> 1 [] c = "2" -> 2 [] c = "3" -> 3
      [] c = "4" -> 4 [] c = "5" -> 5 [] c = "6" -> 6 [] c = "7" -> 7
      [] c = "8" -> 8 [] c = "9" -> 9

\* a JavaScript number: an integer or NaN
Number(n) == [nan |-> FALSE, n |-> n]

NaN == [nan |-> TRUE, n |-> 0]

\* the longest prefix of t made of digits
RECURSIVE DigitPrefix(_)
DigitPrefix(t) ==
    IF t = <<>> \/ Head(t) \notin DigitChars THEN <<>>
    ELSE <<Head(t)>> \o DigitPrefix(Tail(t))

RECURSIVE DecimalValue(_)
DecimalValue(ds) ==
    IF ds = <<>> THEN 0
    ELSE 10 * DecimalValue(SubSeq(ds, 1, Len(ds) - 1)) + DigitVal(ds[Len(ds)])

RECURSIVE SkipSpace(_)
SkipSpace(t) ==
    IF t # <<>> /\ Head(t) = " " THEN SkipSpace(Tail(t)) ELSE t

\* parseInt(t, 10): leading white space, an optional sign, then digits
ParseInt(t) ==
    LET u == SkipSpace(t)
        signed == u # <<>> /\ Head(u) \in {"-", "+"}
        ds == DigitPrefix(IF signed THEN Tail(u) ELSE u)
    IN  IF ds = <<>> THEN NaN
        ELSE IF signed /\ Head(u) = "-" THEN Number(0 - DecimalValue(ds))
        ELSE Number(DecimalValue(ds))

\* t.match(/\d+/): the first run of digits, None when there is none
RECURSIVE MatchDigits(_)
MatchDigits(t) ==
    IF t = <<>> THEN None
    ELSE IF Head(t) \in DigitChars THEN Some(DigitPrefix(t))
    ELSE MatchDigits(Tail(t))

TotalRatings(countText) ==
    LET ratingsMatch == MatchDigits(countText)
    IN  IF ratingsMatch # None /\ ratingsMatch[1] # <<>>
        THEN ParseInt(ratingsMatch[1])
        ELSE Number(0)

RatingsByStar(votes) == [i \in 1..Len(votes) |-> ParseInt(votes[i])]

EmptyHistogram == [star \in 1..5 |-> Number(0)]

\* acc[key] = value on a JavaScript object: the key is added when absent
Assign(acc, key, value) ==
    [k \in DOMAIN acc \cup {key} |-> IF k = key THEN value ELSE acc[k]]

\* ratingsByStar.reduce(...): index is 0-based in the source, i - 1 here
RECURSIVE BuildHistogram(_, _, _)
BuildHistogram(byStar, i, acc) ==
    IF i > Len(byStar) THEN acc
    ELSE BuildHistogram(byStar, i + 1, Assign(acc, 5 - (i - 1), byStar[i]))

ParseRatings(body) ==
    [ratings |-> TotalRatings(body.count),
     histogram |-> BuildHistogram(RatingsByStar(body.votes), 1, EmptyHistogram)]

\* text of a `.vote .total` element
VoteTexts == {<<"1", "2">>, <<"-", "4">>, <<"x">>}

\* concatenated text of the `.rating-count` elements
CountTexts == {<<>>, <<"4", "8", " ", "R">>, <<"R">>}

\* a response body: its length and what the selectors find in it
EmptyBody == [length |-> 0, count |-> <<>>, votes |-> <<>>]

RatingsPage(count, votes) == [length |-> 1 + Len(votes), count |-> count, votes |-> votes]

VoteLists(max) == UNION {[1..n -> VoteTexts] : n \in 0..max}

RatingsBodies ==
    {EmptyBody} \cup {RatingsPage(c, v) : c \in CountTexts, v \in VoteLists(MaxVotes)}

RatingsResponses ==
    {[status |-> "error", body |-> EmptyBody]}
    \cup {[status |-> "ok", body |-> b] : b \in RatingsBodies}

RatingsOptions == {[NoOpts EXCEPT !.id = i] : i \in {None, Some(0), Some(7)}}

\* ratings(): up to `await doRequest`
RatingsCall(o) ==
    /\ pc = "idle"
    /\ op' = "ratings"
    /\ opts' = o
    /\ IF ~TruthyNum(o.id)
       THEN /\ outcome' = "id is required"
            /\ pc' = "failed"
            /\ requests' = requests
       ELSE /\ outcome' = outcome
            /\ pc' = "awaitRatings"
            /\ requests' = Append(requests, Request("ratings", 0))
    /\ UNCHANGED <<ratingsVars, notRatings>>

\* ratings(): from the return of doRequest to the end
RatingsReturn(resp) ==
    /\ pc = "awaitRatings"
    /\ html' = resp.body
    /\ IF resp.status = "error"
       THEN /\ outcome' = "transport error"
            /\ pc' = "failed"
            /\ ratingsData' = ratingsData
       ELSE IF resp.body.length = 0
       THEN /\ outcome' = "App not found (404)"
            /\ pc' = "failed"
            /\ ratingsData' = ratingsData
       ELSE /\ outcome' = "ok"
            /\ pc' = "done"
            /\ ratingsData' = Some(ParseRatings(resp.body))
    /\ UNCHANGED <<op, opts, requests, notRatings>>

(***************************************************************************)
(* privacy                                                                 *)
(***************************************************************************)
RECURSIVE SkipSpaceEnd(_)
SkipSpaceEnd(t) ==
    IF t # <<>> /\ t[Len(t)] = " " THEN SkipSpaceEnd(SubSeq(t, 1, Len(t) - 1))
    ELSE t

\* String.prototype.trim
Trim(t) == SkipSpaceEnd(SkipSpace(t))

\* label.includes(phrase), label and phrase as sequences of words
Includes(label, phrase) ==
    \E i \in 1..(Len(label) - Len(phrase) + 1) :
        SubSeq(label, i, i + Len(phrase) - 1) = phrase

PrivacyPolicyPhrase == <<"Privacy", "Policy">>

\* an `a[data-test-id="external-link"]` of the dialog
Link(label, href) == [ariaLabel |-> label, href |-> href]

IsPolicyLink(link) ==
    /\ link.ariaLabel # None
    /\ link.ariaLabel[1] # <<>>
    /\ Includes(link.ariaLabel[1], PrivacyPolicyPhrase)

\* the .each loop of lines 32-39: the href of the first matching link
RECURSIVE FindPolicyUrl(_)
FindPolicyUrl(links) ==
    IF links = <<>> THEN None
    ELSE IF IsPolicyLink(Head(links)) THEN Head(links).href
    ELSE FindPolicyUrl(Tail(links))

\* mutant: a category item is kept whenever it has a name
QualifiesNamed(categoryName, dataTypes) == categoryName # <<>>

\* `categoryName && dataTypes.length > 0`
Qualifies(categoryName, dataTypes) ==
    categoryName # <<>> /\ Len(dataTypes) > 0

PrivacyType(categoryName, purpose, dataTypes) ==
    [privacyType |-> categoryName,
     name |-> categoryName,
     description |-> <<"Used for ", purpose>>,
     dataCategories |-> dataTypes,
     purposes |-> <<purpose>>]

\* the inner .each of lines 50-69 over one section's category items
RECURSIVE CategoryTypes(_, _)
CategoryTypes(categories, purpose) ==
    IF categories = <<>> THEN <<>>
    ELSE LET category == Head(categories)
             categoryName == Trim(category.title)
             dataTypes == Map(category.dataTypes, Trim)
         IN  (IF Qualifies(categoryName, dataTypes)
              THEN <<PrivacyType(categoryName, purpose, dataTypes)>>
              ELSE <<>>)
             \o CategoryTypes(Tail(categories), purpose)

\* the outer .each of lines 45-70 over the purpose sections
RECURSIVE ExtractPrivacyTypes(_)
ExtractPrivacyTypes(sections) ==
    IF sections = <<>> THEN <<>>
    ELSE CategoryTypes(Head(sections).categories, Trim(Head(sections).h3))
         \o ExtractPrivacyTypes(Tail(sections))

\* mutant: the URL is copied whenever the attribute exists
PolicyUrlFieldDefined(url) == url

\* `if (privacyPolicyUrl) result.privacyPolicyUrl = privacyPolicyUrl`
PolicyUrlField(url) == IF TruthyStr(url) THEN url ELSE None

\* `if (privacyTypes.length > 0) result.privacyTypes = privacyTypes`
PrivacyTypesField(types) == IF Len(types) > 0 THEN Some(types) ELSE None

BuildPrivacy(page) ==
    [privacyPolicyUrl |-> PolicyUrlField(FindPolicyUrl(page.links)),
     privacyTypes |-> PrivacyTypesField(ExtractPrivacyTypes(page.sections))]

\* the page: what the selectors of privacy() find in it
LinkLabels ==
    {None, Some(<<"Support">>), Some(<<"App", "Privacy", "Policy">>)}

Hrefs == {None, Some(""), Some("https://p")}

Links == {Link(l, h) : l \in LinkLabels, h \in Hrefs}

LinkLists(max) == UNION {[1..n -> Links] : n \in 0..max}

IndexChar(i) ==
    CASE i = 1 -> "1" [] i = 2 -> "2" [] i = 3 -> "3" [] i = 4 -> "4"
      [] OTHER -> "5"

\* a `li.purpose-category`: its title is blank or names its position; it has
\* no `.privacy-data-types li` or one
CategoryItem(i, titled, typed) ==
    [title |-> IF titled THEN <<" ", "C", IndexChar(i)>> ELSE <<" ">>,
     dataTypes |-> IF typed THEN << <<"e", " ">> >> ELSE <<>>]

CategoryLists(max) ==
    UNION {{[i \in 1..n |-> CategoryItem(i, titled[i], typed[i])] :
                titled \in [1..n -> BOOLEAN], typed \in [1..n -> BOOLEAN]} :
           n \in 0..max}

\* sequences of n sections holding at most `max` category items in all;
\* section k of the page has the heading " P<k>"
RECURSIVE SectionLists(_, _, _)
SectionLists(k, n, max) ==
    IF n = 0 THEN {<<>>}
    ELSE UNION {{<<[h3 |-> <<" ", "P", IndexChar(k)>>, categories |-> c]>> \o rest :
                    rest \in SectionLists(k + 1, n - 1, max - Len(c))} :
                c \in CategoryLists(max)}

PrivacyPage(links, sections) == [links |-> links, sections |-> sections]

EmptyPage == PrivacyPage(<<>>, <<>>)

SectionListsUpTo(sections, categories) ==
    UNION {SectionLists(1, n, categories) : n \in 0..sections}

\* what doRequest can produce: an exception or a page
PrivacyResponse(status, links, sections) ==
    [status |-> status, page |-> PrivacyPage(links, sections)]

PrivacyOptions == {[NoOpts EXCEPT !.id = i] : i \in {None, Some(0), Some(7)}}

\* privacy(): up to `await doRequest`
PrivacyCall(o) ==
    /\ pc = "idle"
    /\ op' = "privacy"
    /\ opts' = o
    /\ IF ~TruthyNum(o.id)
       THEN /\ outcome' = "id is required"
            /\ pc' = "failed"
            /\ requests' = requests
       ELSE /\ outcome' = outcome
            /\ pc' = "awaitPrivacy"
            /\ requests' = Append(requests, Request("appPage", 0))
    /\ UNCHANGED <<privacyVars, notPrivacy>>

\* privacy(): from the return of doRequest to the end
PrivacyReturn(resp) ==
    /\ pc = "awaitPrivacy"
    /\ privacyPage' = resp.page
    /\ IF resp.status = "error"
       THEN /\ outcome' = "transport error"
            /\ pc' = "failed"
            /\ privacyResult' = privacyResult
       ELSE /\ outcome' = "ok"
            /\ pc' = "done"
            /\ privacyResult' = BuildPrivacy(resp.page)
    /\ UNCHANGED <<op, opts, requests, notPrivacy>>

(***************************************************************************)
(* app: screenshot scraping                                                *)
(***************************************************************************)
\* A URL is its sequence of path segments (the text between slashes); the
\* empty string is <<>>.  An srcset is the sequence of its comma-separated
\* entries, each with the URL and, when present, the descriptor after it.
SrcsetEntry(url, widthPart) == [url |-> url, widthPart |-> widthPart]

\* widthPart.match(/(\d+)w/): the first run of digits followed by "w"
RECURSIVE MatchWidth(_)
MatchWidth(t) ==
    IF t = <<>> THEN None
    ELSE IF Head(t) \in DigitChars
    THEN LET run == DigitPrefix(t)
             rest == SubSeq(t, Len(run) + 1, Len(t))
         IN  IF rest # <<>> /\ Head(rest) = "w" THEN Some(run)
             ELSE MatchWidth(rest)
    ELSE MatchWidth(Tail(t))

WidthOf(entry) ==
    LET widthMatch == IF entry.widthPart = None THEN None
                      ELSE MatchWidth(entry.widthPart[1])
    IN  IF widthMatch # None THEN ParseInt(widthMatch[1]).n ELSE 0

\* entries.sort((a, b) => b.width - a.width)[0]: the sort is stable, so the
\* first of the widest entries
Best(entries) ==
    LET widest == CHOOSE i \in 1..Len(entries) :
                      /\ \A j \in 1..Len(entries) :
                            WidthOf(entries[j]) <= WidthOf(entries[i])
                      /\ \A j \in 1..(i - 1) :
                            WidthOf(entries[j]) < WidthOf(entries[i])
    IN  entries[widest]

\* last segments that /\d+x\d+bb(-\d+)?\.(webp|jpg|jpeg|png)$/ matches
SizedNames ==
    {"300x650bb.webp", "600x1300bb.webp", "300x650bb-60.jpg", "392x696bb.png"}

NormalizedName == "392x696bb.png"

\* url.replace(/\/\d+x\d+bb(-\d+)?\.(webp|jpg|jpeg|png)$/, '/392x696bb.png')
Normalize(url) ==
    IF Len(url) >= 2 /\ url[Len(url)] \in SizedNames
    THEN [url EXCEPT ![Len(url)] = NormalizedName]
    ELSE url

\* extractScreenshotUrl of a non-empty srcset: None stands for null
ExtractScreenshotUrl(srcset) ==
    LET best == Best(srcset)
    IN  IF best.url # <<>> THEN Some(Normalize(best.url)) ELSE None

NoScreenshots ==
    [screenshots |-> <<>>, ipadScreenshots |-> <<>>, appletvScreenshots |-> <<>>]

\* mutant: the membership test never finds the URL
Includes1Never(list, x) == FALSE

Includes1(list, x) == \E i \in 1..Len(list) : list[i] = x

\* the body of one .each callback (lines 146-154, 157-165, 168-176)
Collect(result, field, srcset) ==
    IF srcset = None \/ srcset[1] = <<>> THEN result
    ELSE LET url == ExtractScreenshotUrl(srcset[1])
         IN  IF url # None /\ ~Includes1(result[field], url[1])
             THEN [result EXCEPT ![field] = Append(@, url[1])]
             ELSE result

\* the <source> elements the three selectors find, in the order the three
\* loops visit them
Sources(page) ==
    [i \in 1..Len(page.phone) |->
        [field |-> "screenshots", srcset |-> page.phone[i]]]
    \o [i \in 1..Len(page.pad) |->
        [field |-> "ipadScreenshots", srcset |-> page.pad[i]]]
    \o [i \in 1..Len(page.tv) |->
        [field |-> "appletvScreenshots", srcset |-> page.tv[i]]]

RECURSIVE CollectAll(_, _)
CollectAll(result, sources) ==
    IF sources = <<>> THEN result
    ELSE CollectAll(Collect(result, Head(sources).field, Head(sources).srcset),
                    Tail(sources))

\* scrapeScreenshots after doRequest: `result` is filled in place inside the
\* try block and returned after the empty catch block.  resp.thrown = <<k>>
\* says that an exception left the try block when k <source> elements had
\* been handled.
ScrapeResult(resp) ==
    IF resp.status = "error" THEN NoScreenshots
    ELSE IF resp.thrown # None
    THEN CollectAll(NoScreenshots, SubSeq(Sources(resp.page), 1, resp.thrown[1]))
    ELSE CollectAll(NoScreenshots, Sources(resp.page))

ScrapeFailed(resp) == resp.status = "error" \/ resp.thrown # None

\* srcset attributes: absent, or one of three strings
\*   "a/300x650bb.webp 300w, a/600x1300bb.webp 600w"
\*   "a/300x650bb-60.jpg 2x"
\*   "b/icon.png"
Srcsets ==
    {None,
     Some(<<SrcsetEntry(<<"a", "300x650bb.webp">>, Some(<<"3", "0", "0", "w">>)),
            SrcsetEntry(<<"a", "600x1300bb.webp">>, Some(<<"6", "0", "0", "w">>))>>),
     Some(<<SrcsetEntry(<<"a", "300x650bb-60.jpg">>, Some(<<"2", "x">>))>>),
     Some(<<SrcsetEntry(<<"b", "icon.png">>, None)>>)}

SourceLists(max) == UNION {[1..n -> Srcsets] : n \in 0..max}

\* app pages with at most MaxSources <source> elements in the three containers
ScrapePages ==
    UNION {UNION {{[phone |-> p, pad |-> i, tv |-> t] :
                      t \in SourceLists(MaxSources - Len(p) - Len(i))} :
                  i \in SourceLists(MaxSources - Len(p))} :
           p \in SourceLists(MaxSources)}

EmptyScrapePage == [phone |-> <<>>, pad |-> <<>>, tv |-> <<>>]

ScrapeResponses ==
    {[status |-> "error", page |-> EmptyScrapePage, thrown |-> None]}
    \cup {[status |-> "ok", page |-> page, thrown |-> t] :
            page \in ScrapePages, t \in {None}}
    \cup UNION {{[status |-> "ok", page |-> page, thrown |-> Some(k)] :
                    k \in 0..Len(Sources(page))} :
                page \in ScrapePages}

(***************************************************************************)
(* app                                                                     *)
(***************************************************************************)
\* validateRequiredField(options, fields, message): throws when none of the
\* fields is given
ValidateRequiredField(o) == o.id # None \/ o.appId # None

\* an App record as lookup() returns it
App(id, title, phone, pad, tv) ==
    [id |-> id, title |-> title, screenshots |-> phone, ipadScreenshots |-> pad,
     appletvScreenshots |-> tv, histogram |-> None]

ApiScreenshots == {<<>>, << <<"api", "shot.png">> >>}

\* lookup(): the first entry varies in its screenshots, the later entries
\* are other apps
AppLists ==
    {<<>>}
    \cup {<<App(7, 1, p, i, t)>> \o
            [k \in 1..(n - 1) |-> App(7 + k, 1 + k, << <<"api", "other.png">> >>, <<>>, <<>>)] :
            p \in ApiScreenshots, i \in ApiScreenshots, t \in ApiScreenshots,
            n \in 1..MaxApps}

LookupResponses ==
    {[status |-> "error", apps |-> <<>>]}
    \cup {[status |-> "ok", apps |-> a] : a \in AppLists}

AppOptions ==
    {[NoOpts EXCEPT !.id = i, !.appId = a, !.ratings = r] :
        i \in {None, Some(7)}, a \in {None, Some("com.x")}, r \in BOOLEAN}

\* the ratings pages app() is tried with: empty body, no markup, five counts
AppRatingsResponses ==
    {[status |-> "error", body |-> EmptyBody],
     [status |-> "ok", body |-> EmptyBody],
     [status |-> "ok", body |-> RatingsPage(<<>>, <<>>)],
     [status |-> "ok", body |-> RatingsPage(<<"4", "8", " ", "R">>,
                                            [i \in 1..5 |-> <<"1", "2">>])]}

\* a swallowed exception: the function whose catch block took it
Caught(where, error) == [in |-> where, error |-> error]

\* mutant: an empty lookup result is not checked for
NotFoundUnchecked(list) == FALSE

\* `apps.length === 0`
NotFound(list) == Len(list) = 0

\* mutant: scraping is tried as soon as the phone screenshots are missing
HasNoPhoneScreenshots(data) == Len(data.screenshots) = 0

HasNoScreenshots(data) ==
    /\ Len(data.screenshots) = 0
    /\ Len(data.ipadScreenshots) = 0
    /\ Len(data.appletvScreenshots) = 0

\* mutant: the Apple TV field is read from a property the scrape result
\* does not have, which leaves it undefined
WithScreenshotsMisnamed(data, shots) ==
    [f \in DOMAIN data \ {"appletvScreenshots"} |->
        IF f = "screenshots" THEN shots.screenshots
        ELSE IF f = "ipadScreenshots" THEN shots.ipadScreenshots
        ELSE data[f]]

\* lines 229-231
WithScreenshots(data, shots) ==
    [data EXCEPT !.screenshots = shots.screenshots,
                 !.ipadScreenshots = shots.ipadScreenshots,
                 !.appletvScreenshots = shots.appletvScreenshots]

\* mutant: the catch block swallows a not-found only and rethrows the rest
RatingsCatchNotFound(error) == error = "App not found (404)"

\* `catch (error) { }` of lines 239-242: every exception of ratings() is
\* swallowed
RatingsCatch(error) == TRUE

\* lines 234-245 up to `await doRequest` inside ratings(), or to the return
\* when no ratings are asked for; c is the list of swallowed exceptions
RatingsStep(data, c) ==
    /\ appData' = Some(data)
    /\ IF ~opts.ratings
       THEN /\ pc' = "done"
            /\ outcome' = "ok"
            /\ requests' = requests
            /\ caught' = c
       ELSE IF ~TruthyNum(Some(data.id))
       THEN /\ pc' = IF RatingsCatch("id is required")
                     THEN "done" ELSE "failed"
            /\ outcome' = IF RatingsCatch("id is required")
                          THEN "ok" ELSE "id is required"
            /\ requests' = requests
            /\ caught' = Append(c, Caught("ratings", "id is required"))
       ELSE /\ pc' = "awaitAppRatings"
            /\ outcome' = outcome
            /\ requests' = Append(requests, Request("ratings", 0))
            /\ caught' = c

\* mutant: the ratings request is started together with the scraping
\* request instead of after the screenshot step
AfterLookupParallel(first) ==
    IF HasNoScreenshots(first)
    THEN /\ appData' = Some(first)
         /\ pc' = "awaitScrape"
         /\ requests' = requests \o <<Request("appPage", 0)>>
                            \o (IF opts.ratings THEN <<Request("ratings", 0)>>
                                ELSE <<>>)
         /\ UNCHANGED <<outcome, caught>>
    ELSE RatingsStep(first, caught)

\* lines 219-232 up to `await doRequest` inside scrapeScreenshots, else on to
\* the ratings step
AfterLookup(first) ==
    IF HasNoScreenshots(first)
    THEN /\ appData' = Some(first)
         /\ pc' = "awaitScrape"
         /\ requests' = Append(requests, Request("appPage", 0))
         /\ UNCHANGED <<outcome, caught>>
    ELSE RatingsStep(first, caught)

\* app(): up to `await lookup`
AppCall(o) ==
    /\ pc = "idle"
    /\ op' = "app"
    /\ opts' = o
    /\ IF ~ValidateRequiredField(o)
       THEN /\ outcome' = "Either id or appId is required"
            /\ pc' = "failed"
            /\ requests' = requests
       ELSE /\ outcome' = outcome
            /\ pc' = "awaitLookup"
            /\ requests' = Append(requests, Request("lookup", 0))
    /\ UNCHANGED <<appVars, ratingsVars, notApp>>

\* app(): from the return of lookup to the next await or to the end
AppLookupReturn(resp) ==
    /\ pc = "awaitLookup"
    /\ IF resp.status = "error"
       THEN /\ apps' = apps
            /\ outcome' = "transport error"
            /\ pc' = "failed"
            /\ UNCHANGED <<requests, appData, caught>>
       ELSE IF NotFound(resp.apps)
       THEN /\ apps' = Some(resp.apps)
            /\ outcome' = "App not found"
            /\ pc' = "failed"
            /\ UNCHANGED <<requests, appData, caught>>
       ELSE IF resp.apps = <<>>
       THEN \* apps[0] is undefined: reading .screenshots throws a TypeError
            /\ apps' = Some(resp.apps)
            /\ outcome' = "TypeError"
            /\ pc' = "failed"
            /\ UNCHANGED <<requests, appData, caught>>
       ELSE /\ apps' = Some(resp.apps)
            /\ AfterLookup(resp.apps[1])
    /\ UNCHANGED <<op, opts, scrapePage, scraped, ratingsVars, notApp>>

\* app(): from the return of doRequest inside scrapeScreenshots to the next
\* await or to the end
AppScrapeReturn(resp) ==
    /\ pc = "awaitScrape"
    /\ scrapePage' = resp.page
    /\ scraped' = Some(ScrapeResult(resp))
    /\ RatingsStep(WithScreenshots(appData[1], ScrapeResult(resp)),
                   IF ScrapeFailed(resp)
                   THEN Append(caught,
                               Caught("scrapeScreenshots",
                                      IF resp.status = "error"
                                      THEN "transport error" ELSE "scrape error"))
                   ELSE caught)
    /\ UNCHANGED <<op, opts, apps, ratingsVars, notApp>>

\* app(): from the return of doRequest inside ratings() to the end
AppRatingsReturn(resp) ==
    /\ pc = "awaitAppRatings"
    /\ html' = resp.body
    /\ LET error == IF resp.status = "error" THEN "transport error"
                    ELSE IF resp.body.length = 0 THEN "App not found (404)"
                    ELSE "none"
       IN  IF error = "none"
           THEN /\ ratingsData' = Some(ParseRatings(resp.body))
                /\ appData' = Some([appData[1] EXCEPT
                                      !.histogram = Some(ParseRatings(resp.body).histogram)])
                /\ pc' = "done"
                /\ outcome' = "ok"
                /\ caught' = caught
           ELSE /\ ratingsData' = ratingsData
                /\ appData' = appData
                /\ pc' = IF RatingsCatch(error) THEN "done" ELSE "failed"
                /\ outcome' = IF RatingsCatch(error) THEN "ok" ELSE error
                /\ caught' = Append(caught, Caught("ratings", error))
    /\ UNCHANGED <<op, opts, requests, apps, scrapePage, scraped, notApp>>

(***************************************************************************)
(* versionHistory                                                          *)
(***************************************************************************)
\* an `article` of the dialog: the text of its p, of its h4, and the
\* datetime attribute of its time element
Article(i, notes, datetime) ==
    [p |-> notes, h4 |-> <<" ", "v", IndexChar(i)>>, datetime |-> datetime]

ArticleLists ==
    UNION {{[i \in 1..n |-> Article(i, notes[i], dates[i])] :
                notes \in [1..n -> {<<>>, <<" ", "n">>}],
                dates \in [1..n -> {None, Some("2024-01-01")}]} :
           n \in 0..MaxArticles}

\* lines 35-50 for one article
VersionEntry(article) ==
    LET releaseNotes == Trim(article.p)
    IN  [versionDisplay |-> Trim(article.h4),
         releaseDate |-> IF TruthyStr(article.datetime) THEN article.datetime[1] ELSE "",
         releaseNotes |-> IF releaseNotes # <<>> THEN Some(releaseNotes) ELSE None]

HistoryResponses ==
    {[status |-> "error", articles |-> <<>>]}
    \cup {[status |-> "ok", articles |-> a] : a \in ArticleLists}

HistoryOptions == {[NoOpts EXCEPT !.id = i] : i \in {None, Some(0), Some(7)}}

\* versionHistory(): up to `await doRequest`
VersionHistoryCall(o) ==
    /\ pc = "idle"
    /\ op' = "versionHistory"
    /\ opts' = o
    /\ IF ~TruthyNum(o.id)
       THEN /\ outcome' = "id is required"
            /\ pc' = "failed"
            /\ requests' = requests
       ELSE /\ outcome' = outcome
            /\ pc' = "awaitHistory"
            /\ requests' = Append(requests, Request("appPage", 0))
    /\ UNCHANGED <<historyVars, notHistory>>

\* versionHistory(): from the return of doRequest to the end
VersionHistoryReturn(resp) ==
    /\ pc = "awaitHistory"
    /\ articles' = resp.articles
    /\ IF resp.status = "error"
       THEN /\ outcome' = "transport error"
            /\ pc' = "failed"
            /\ versions' = versions
       ELSE /\ outcome' = "ok"
            /\ pc' = "done"
            /\ versions' = Map(resp.articles, VersionEntry)
    /\ UNCHANGED <<op, opts, requests, notHistory>>

(***************************************************************************)
(* suggest                                                                 *)
(***************************************************************************)
\* dict.string of one dict entry: missing, a scalar string or an array
StringField(kind, values) == [kind |-> kind, values |-> values]

StringFields ==
    {StringField("missing", <<>>),
     StringField("scalar", <<"minecraft">>),
     StringField("scalar", <<"">>),
     StringField("array", <<>>),
     StringField("array", <<"mine", "minecraft">>)}

DictLists == UNION {[1..n -> StringFields] : n \in 0..MaxDicts}

\* result.plist?.dict?.array: what the optional chain reaches.  `level`
\* names the first missing level ("none" when the array is there), `bare`
\* says that the array is a bare string, `dict` is arrayData.dict.
ArrayData(level, bare, dict) == [level |-> level, bare |-> bare, dict |-> dict]

Hints ==
    {ArrayData(l, FALSE, None) : l \in {"plist", "dict", "array"}}
    \cup {ArrayData("none", TRUE, None), ArrayData("none", FALSE, None)}
    \cup {ArrayData("none", FALSE, Some(d)) : d \in DictLists}

\* mutant: a scalar dict.string is not wrapped into a one-element array
StringsArrayOnly(field) ==
    IF field.kind = "array" THEN Map(field.values, Some) ELSE <<None>>

\* Array.isArray(dict.string) ? dict.string : [dict.string]
Strings(field) ==
    IF field.kind = "array" THEN Map(field.values, Some)
    ELSE IF field.kind = "scalar" THEN <<Some(field.values[1])>>
    ELSE <<None>>

\* the loop of lines 122-128
RECURSIVE Terms(_)
Terms(dicts) ==
    IF dicts = <<>> THEN <<>>
    ELSE LET strings == Strings(Head(dicts))
             term == IF strings = <<>> THEN None ELSE strings[1]
         IN  (IF TruthyStr(term) THEN <<[term |-> term[1]]>> ELSE <<>>)
             \o Terms(Tail(dicts))

\* lines 108-131
Suggestions(data) ==
    IF data.level # "none" \/ data.bare \/ data.dict = None THEN <<>>
    ELSE Terms(data.dict[1])

NoHints == ArrayData("plist", FALSE, None)

SuggestResponses ==
    {[status |-> "error", data |-> NoHints],
     [status |-> "invalid", data |-> NoHints]}
    \cup {[status |-> "ok", data |-> d] : d \in Hints}

SuggestOptions == {[NoOpts EXCEPT !.term = t] : t \in {None, Some(""), Some("min")}}

\* suggest(): up to `await doRequest`
SuggestCall(o) ==
    /\ pc = "idle"
    /\ op' = "suggest"
    /\ opts' = o
    /\ IF ~TruthyStr(o.term)
       THEN /\ outcome' = "term is required"
            /\ pc' = "failed"
            /\ requests' = requests
       ELSE /\ outcome' = outcome
            /\ pc' = "awaitSuggest"
            /\ requests' = Append(requests, Request("hints", 0))
    /\ UNCHANGED <<suggestVars, notSuggest>>

\* suggest(): from the return of doRequest to the end
SuggestReturn(resp) ==
    /\ pc = "awaitSuggest"
    /\ hints' = resp.data
    /\ IF resp.status = "error"
       THEN /\ outcome' = "transport error"
            /\ pc' = "failed"
            /\ suggestions' = suggestions
       ELSE IF resp.status = "invalid"
       THEN /\ outcome' = "Suggest API response validation failed"
            /\ pc' = "failed"
            /\ suggestions' = suggestions
       ELSE /\ outcome' = "ok"
            /\ pc' = "done"
            /\ suggestions' = Suggestions(resp.data)
    /\ UNCHANGED <<op, opts, requests, notSuggest>>

Init ==
    /\ op = "none"
    /\ pc = "idle"
    /\ opts = NoOpts
    /\ requests = <<>>
    /\ outcome = "none"
    /\ upstream = <<>>
    /\ found = <<>>
    /\ ids = <<>>
    /\ html = EmptyBody
    /\ ratingsData = None
    /\ privacyPage = EmptyPage
    /\ privacyResult = [privacyPolicyUrl |-> None, privacyTypes |-> None]
    /\ apps = None
    /\ appData = None
    /\ scrapePage = EmptyScrapePage
    /\ scraped = None
    /\ caught = <<>>
    /\ articles = <<>>
    /\ versions = <<>>
    /\ hints = NoHints
    /\ suggestions = <<>>

SearchNext ==
    \/ pc = "idle" /\ \E o \in SearchOptions : SearchCall(o)
    \/ pc = "awaitSearch" /\ \E resp \in SearchResponses : SearchReturn(resp)

SpecSearch == Init /\ [][SearchNext]_vars

RatingsNext ==
    \/ pc = "idle" /\ \E o \in RatingsOptions : RatingsCall(o)
    \/ pc = "awaitRatings" /\ \E resp \in RatingsResponses : RatingsReturn(resp)

SpecRatings == Init /\ [][RatingsNext]_vars

PrivacyNext ==
    \/ pc = "idle" /\ \E o \in PrivacyOptions : PrivacyCall(o)
    \/ pc = "awaitPrivacy" /\ PrivacyReturn(PrivacyResponse("error", <<>>, <<>>))
    \* pages that vary the links, with few sections
    \/ pc = "awaitPrivacy" /\
          \E l \in LinkLists(MaxLinks), s \in SectionListsUpTo(1, 1) :
              PrivacyReturn(PrivacyResponse("ok", l, s))
    \* pages that vary the sections, with few links
    \/ pc = "awaitPrivacy" /\
          \E l \in LinkLists(1), s \in SectionListsUpTo(MaxSections, MaxCategories) :
              PrivacyReturn(PrivacyResponse("ok", l, s))

SpecPrivacy == Init /\ [][PrivacyNext]_vars

AppNext ==
    \/ pc = "idle" /\ \E o \in AppOptions : AppCall(o)
    \/ pc = "awaitLookup" /\ \E resp \in LookupResponses : AppLookupReturn(resp)
    \/ pc = "awaitScrape" /\ \E resp \in ScrapeResponses : AppScrapeReturn(resp)
    \/ pc = "awaitAppRatings" /\ \E resp \in AppRatingsResponses : AppRatingsReturn(resp)

SpecApp == Init /\ [][AppNext]_vars

\* the return of an awaited request: lookup, the app page or the ratings page
AppReturn == pc # "idle" /\ AppNext

\* app() when every request it awaits returns, with a body or an error
FairSpecApp == SpecApp /\ WF_vars(AppReturn)

VersionHistoryNext ==
    \/ pc = "idle" /\ \E o \in HistoryOptions : VersionHistoryCall(o)
    \/ pc = "awaitHistory" /\ \E resp \in HistoryResponses : VersionHistoryReturn(resp)

SuggestNext ==
    \/ pc = "idle" /\ \E o \in SuggestOptions : SuggestCall(o)
    \/ pc = "awaitSuggest" /\ \E resp \in SuggestResponses : SuggestReturn(resp)

SpecSuggest == Init /\ [][SuggestNext]_vars

\* one call of any of the six operations
Next ==
    \/ SearchNext
    \/ RatingsNext
    \/ PrivacyNext
    \/ AppNext
    \/ VersionHistoryNext
    \/ SuggestNext

Spec == Init /\ [][Next]_vars

(***************************************************************************)
(* Claims about search.                                                    *)
(***************************************************************************)
\* positions of the software entries in the upstream sequence
SoftwarePositions == {i \in 1..Len(upstream) : upstream[i].kind = "software"}

\* the upstream position of the k-th software entry (k counted from 1)
SoftwareAt(k) ==
    CHOOSE i \in SoftwarePositions :
        Cardinality({j \in SoftwarePositions : j <= i}) = k

\* the entries at 0-based positions [(p-1)*num, p*num) of the filtered sequence
Window ==
    LET n == Num(opts)
        p == Page(opts)
        total == Cardinality(SoftwarePositions)
        first == (p - 1) * n + 1
        last == Min(p * n, total)
    IN  [m \in 1..Max(0, last - first + 1) |-> upstream[SoftwareAt(first + m - 1)]]

SearchDone == op = "search" /\ pc = "done"

\* C1: search requests limit = page*num, returns at most num entries, and
\* the entries of page p are exactly those at positions [(p-1)*num, p*num)
\* of the upstream sequence with the non-software entries removed, in
\* upstream order (in idsOnly mode: their track ids, those lacking one dropped).
C1_SearchPage ==
    SearchDone =>
        /\ requests = <<Request("search", Page(opts) * Num(opts))>>
        /\ Len(found) <= Num(opts)
        /\ Len(ids) <= Num(opts)
        /\ ~opts.idsOnly =>
              /\ Len(found) = Len(Window)
              /\ \A m \in 1..Len(Window) :
                    /\ found[m].title = Window[m].trackName
                    /\ found[m].id = Window[m].trackId
        /\ opts.idsOnly =>
              LET withId == {m \in 1..Len(Window) : Window[m].trackId # None}
              IN  /\ Len(ids) = Cardinality(withId)
                  /\ \A m \in withId :
                        ids[Cardinality({k \in withId : k <= m})]
                            = Window[m].trackId[1]

\* a second page whose window differs from the raw one: a non-software
\* entry precedes it upstream and the page is not empty
C1_Witness ==
    /\ SearchDone
    /\ ~opts.idsOnly
    /\ Page(opts) = 2
    /\ Len(found) = Num(opts)
    /\ \E i \in 1..Len(upstream) :
          upstream[i].kind # "software" /\ i < found[1].title

(***************************************************************************)
(* Claims about ratings.                                                   *)
(***************************************************************************)
RatingsReturned == op = "ratings" /\ pc \in {"done", "failed"} /\ requests # <<>>

IsCount(x) == ~x.nan /\ x.n >= 0

\* C7: once the ratings page has been received, ratings() fails with
\* not-found exactly when the body has length 0, and otherwise returns a
\* histogram whose key set is exactly {1,..,5}, every count a non-negative
\* integer, element i (0-based) supplying star 5-i and the other stars 0.
C7_RatingsHistogram ==
    (RatingsReturned /\ outcome # "transport error") =>
        /\ (outcome = "App not found (404)") <=> (html.length = 0)
        /\ html.length # 0 =>
              /\ pc = "done"
              /\ ratingsData # None
              /\ DOMAIN ratingsData[1].histogram = 1..5
              /\ \A star \in 1..5 :
                    /\ IsCount(ratingsData[1].histogram[star])
                    /\ (5 - star + 1 > Len(html.votes))
                          => ratingsData[1].histogram[star] = Number(0)

(***************************************************************************)
(* Claims about privacy.                                                   *)
(***************************************************************************)
PrivacyDone == op = "privacy" /\ pc = "done"

\* positions of the links whose label contains "Privacy Policy"
PolicyLinkPositions ==
    {i \in 1..Len(privacyPage.links) :
        /\ privacyPage.links[i].ariaLabel # None
        /\ \E j \in 1..(Len(privacyPage.links[i].ariaLabel[1]) - 1) :
              /\ privacyPage.links[i].ariaLabel[1][j] = "Privacy"
              /\ privacyPage.links[i].ariaLabel[1][j + 1] = "Policy"}

FirstPolicyLink ==
    CHOOSE i \in PolicyLinkPositions : \A j \in PolicyLinkPositions : i <= j

NoPolicyUrlFound ==
    \/ PolicyLinkPositions = {}
    \/ privacyPage.links[FirstPolicyLink].href \in {None, Some("")}

\* the category items of the page, as <<section, item>> positions
CategoryPositions ==
    {q \in (1..Len(privacyPage.sections)) \X (1..MaxCategories) :
        q[2] <= Len(privacyPage.sections[q[1]].categories)}

CategoryAt(q) == privacyPage.sections[q[1]].categories[q[2]]

HasDataType(q) == Len(CategoryAt(q).dataTypes) >= 1

HasTitle(q) == \E j \in 1..Len(CategoryAt(q).title) : CategoryAt(q).title[j] # " "

WithDataType == {q \in CategoryPositions : HasDataType(q)}

WithTitleAndDataType == {q \in CategoryPositions : HasTitle(q) /\ HasDataType(q)}

ReturnedTypes ==
    IF privacyResult.privacyTypes = None THEN <<>>
    ELSE privacyResult.privacyTypes[1]

\* document order: sections, then items within a section
Rank(q, Q) ==
    Cardinality({r \in Q : r[1] < q[1] \/ (r[1] = q[1] /\ r[2] <= q[2])})

\* the returned records are, in document order, one per item of Q, each
\* with the purpose of its section and the name and data types of its item
RecordsAre(Q) ==
    /\ Len(ReturnedTypes) = Cardinality(Q)
    /\ \A q \in Q :
          LET record == ReturnedTypes[Rank(q, Q)]
          IN  /\ record.purposes = << <<"P", IndexChar(q[1])>> >>
              /\ record.name = <<"C", IndexChar(q[2])>>
              /\ Len(record.dataCategories) = Len(CategoryAt(q).dataTypes)

\* C8: a privacy() result never carries privacyTypes: [] nor
\* privacyPolicyUrl: ""; privacyTypes is omitted when no record was
\* extracted and privacyPolicyUrl when no URL was found, also when the first
\* link labelled "Privacy Policy" has a missing or empty href.
C8_PrivacyOmits ==
    PrivacyDone =>
        /\ privacyResult.privacyTypes # Some(<<>>)
        /\ privacyResult.privacyPolicyUrl # Some("")
        /\ (WithTitleAndDataType = {}) => privacyResult.privacyTypes = None
        /\ NoPolicyUrlFound => privacyResult.privacyPolicyUrl = None

\* the first policy link has an empty href, a later one a real URL, and the
\* page has a category item that yields no record
C8_Witness ==
    /\ PrivacyDone
    /\ PolicyLinkPositions = {1, 2}
    /\ privacyPage.links[1].href = Some("")
    /\ privacyPage.links[2].href = Some("https://p")
    /\ CategoryPositions # {}
    /\ privacyResult = [privacyPolicyUrl |-> None, privacyTypes |-> None]

\* C9 as stated: one record for each category item that has at least one
\* data-type child, none for the others, in document order, each with the
\* purpose of its section.
C9_Original == PrivacyDone => RecordsAre(WithDataType)

\* C9 as amended: one record for each category item that has a non-empty
\* (trimmed) title and at least one data-type child, none for the others, in
\* document order, each with the purpose of its section.
C9_PrivacyTypes == PrivacyDone => RecordsAre(WithTitleAndDataType)

\* two sections each yield a record, and an item that has a data type but
\* no title yields none
C9_Witness ==
    /\ PrivacyDone
    /\ Len(ReturnedTypes) = 2
    /\ ReturnedTypes[1].purposes # ReturnedTypes[2].purposes
    /\ \E q \in CategoryPositions : HasDataType(q) /\ ~HasTitle(q)

(***************************************************************************)
(* Claims about app.                                                       *)
(***************************************************************************)
AppEnded == op = "app" /\ pc \in {"done", "failed"}

Issued(kind) == \E i \in 1..Len(requests) : requests[i].kind = kind

LookupFound == apps # None /\ Len(apps[1]) >= 1

CaughtIn(where) == \E i \in 1..Len(caught) : caught[i].in = where

ScreenshotFields == {"screenshots", "ipadScreenshots", "appletvScreenshots"}

\* the record as it stood when the ratings step began
BeforeRatings ==
    IF scraped = None THEN apps[1][1]
    ELSE [f \in DOMAIN apps[1][1] |->
            IF f \in ScreenshotFields THEN scraped[1][f] ELSE apps[1][1][f]]

NonHistogramFieldsKept ==
    /\ appData # None
    /\ DOMAIN appData[1] = DOMAIN BeforeRatings
    /\ \A f \in DOMAIN BeforeRatings \ {"histogram"} :
          appData[1][f] = BeforeRatings[f]

\* the ratings page came back non-empty but without any per-star element
MissingMarkup ==
    /\ Issued("ratings")
    /\ ~CaughtIn("ratings")
    /\ html.length > 0
    /\ html.votes = <<>>

RatingsRequested == AppEnded /\ opts.ratings /\ LookupFound

\* C2 as stated: with ratings requested and a lookup entry found, a failed
\* ratings step (transport error, empty-body not-found, missing markup)
\* never fails app(): the record is returned, its non-histogram fields as
\* before the step, its histogram unset.
C2_Original ==
    (RatingsRequested /\ (CaughtIn("ratings") \/ MissingMarkup)) =>
        /\ pc = "done"
        /\ outcome = "ok"
        /\ NonHistogramFieldsKept
        /\ appData[1].histogram = None

\* C2 as amended: a ratings step that throws (transport error, empty-body
\* not-found) never fails app(): the record is returned, its non-histogram
\* fields as before the step, its histogram unset; a non-empty page with
\* missing markup is no failure: the record is returned with the same
\* non-histogram fields and the zero-filled histogram.
C2_RatingsBestEffort ==
    RatingsRequested =>
        /\ pc = "done"
        /\ outcome = "ok"
        /\ NonHistogramFieldsKept
        /\ CaughtIn("ratings") => appData[1].histogram = None
        /\ MissingMarkup => appData[1].histogram = Some(EmptyHistogram)

\* the scrape ran and the ratings request then failed in transport
C2_Witness ==
    /\ RatingsRequested
    /\ scraped # None
    /\ scraped[1].screenshots # <<>>
    /\ caught = <<Caught("ratings", "transport error")>>
    /\ pc = "done"
    /\ appData[1].histogram = None

\* C3: the scraping fallback is attempted exactly when the three screenshot
\* sets of the looked-up record are empty; when attempted, the returned
\* record's three fields are the scrape's result, whatever it is; otherwise
\* no scraping request is issued and the fields are the lookup's.
C3_ScrapeFallback ==
    (op = "app" /\ LookupFound) =>
        LET first == apps[1][1]
            allEmpty == \A f \in ScreenshotFields : first[f] = <<>>
        IN  /\ Issued("appPage") <=> allEmpty
            /\ (scraped # None) => allEmpty
            /\ pc = "done" =>
                  /\ allEmpty => scraped # None
                  /\ \A f \in ScreenshotFields :
                        appData[1][f] = IF allEmpty THEN scraped[1][f]
                                        ELSE first[f]

\* the fallback ran, found screenshots, and the call returned them
C3_Witness ==
    /\ op = "app"
    /\ pc = "done"
    /\ Issued("appPage")
    /\ scraped # None
    /\ scraped[1].ipadScreenshots # <<>>
    /\ appData[1].ipadScreenshots = scraped[1].ipadScreenshots

C6_NotFoundTerminal ==
    (op = "app" /\ apps = Some(<<>>)) =>
        /\ pc = "failed"
        /\ outcome = "App not found"
        /\ requests = <<Request("lookup", 0)>>
        /\ appData = None
        /\ scraped = None
        /\ ~ENABLED AppNext

C6_Witness ==
    /\ op = "app"
    /\ apps = Some(<<>>)
    /\ opts.ratings
    /\ outcome = "App not found"

IsSequence(x) == DOMAIN x = 1..Len(x)

\* C10: the record a successful app() returns has the three screenshot
\* fields, each a sequence (possibly empty), on every path.
C10_ScreenshotsPresent ==
    (op = "app" /\ pc = "done") =>
        /\ appData # None
        /\ ScreenshotFields \subseteq DOMAIN appData[1]
        /\ \A f \in ScreenshotFields : IsSequence(appData[1][f])

\* the scrape found phone screenshots and no Apple TV container
C10_Witness ==
    /\ op = "app"
    /\ pc = "done"
    /\ scraped # None
    /\ scrapePage.tv = <<>>
    /\ appData[1].screenshots # <<>>
    /\ appData[1].appletvScreenshots = <<>>

\* the <source> elements of the document in the container of a device class
SourcesOf(f) ==
    IF f = "screenshots" THEN scrapePage.phone
    ELSE IF f = "ipadScreenshots" THEN scrapePage.pad
    ELSE scrapePage.tv

\* the final URL of one <source>: the size-normalised URL of its widest
\* srcset candidate, None when the element yields no URL
FinalUrl(srcset) ==
    IF srcset = None \/ srcset[1] = <<>> THEN None
    ELSE ExtractScreenshotUrl(srcset[1])

\* positions of the elements of a class whose final URL no earlier element
\* of the class has
FirstSeen(f) ==
    {i \in 1..Len(SourcesOf(f)) :
        /\ FinalUrl(SourcesOf(f)[i]) # None
        /\ \A j \in 1..(i - 1) :
              FinalUrl(SourcesOf(f)[j]) # FinalUrl(SourcesOf(f)[i])}

\* the k-th of these positions in document order
KthFirstSeen(f, k) ==
    CHOOSE p \in FirstSeen(f) :
        Cardinality({q \in FirstSeen(f) : q < p}) = k - 1

\* the extraction ran over a document to its end
Extracted == op = "app" /\ scraped # None /\ ~CaughtIn("scrapeScreenshots")

\* C11: extraction over a fixed document is a function of the document:
\* for each device class the list holds no two equal final URLs, and it is
\* exactly the distinct final URLs of the class in the order of their first
\* occurrence in the document, so a second run over the same document
\* gives the same three ordered lists.
C11_ExtractionDedup ==
    Extracted =>
        \A f \in ScreenshotFields :
            LET out == scraped[1][f]
            IN  /\ \A i, j \in 1..Len(out) : i # j => out[i] # out[j]
                /\ Len(out) = Cardinality(FirstSeen(f))
                /\ \A k \in 1..Len(out) :
                      Some(out[k]) = FinalUrl(SourcesOf(f)[KthFirstSeen(f, k)])

\* a phone container whose second source repeats, in another size and
\* format, the final URL of the first: one phone URL comes out
C11_Witness ==
    /\ Extracted
    /\ Len(scrapePage.phone) = 2
    /\ scrapePage.phone[1] # scrapePage.phone[2]
    /\ FinalUrl(scrapePage.phone[1]) # None
    /\ FinalUrl(scrapePage.phone[1]) = FinalUrl(scrapePage.phone[2])
    /\ scraped[1].screenshots = <<(<<"a", "392x696bb.png">>)>>

(***************************************************************************)
(* Claims about the order of app's requests.                               *)
(***************************************************************************)
RequestKinds == [i \in 1..Len(requests) |-> requests[i].kind]

\* the request sequences a strictly sequential call without retries can
\* have issued
SequentialKinds ==
    {<<>>, <<"lookup">>, <<"lookup", "appPage">>, <<"lookup", "ratings">>,
     <<"lookup", "appPage", "ratings">>}

\* at most one request of each kind, in the order lookup, app page,
\* ratings, each issued after the step before it has finished
RequestsInOrder ==
    op = "app" =>
        /\ RequestKinds \in SequentialKinds
        /\ Len(requests) <= 3
        /\ Issued("appPage") => apps # None
        /\ Issued("ratings") =>
              /\ apps # None
              /\ pc # "awaitScrape"
              /\ Issued("appPage") => scraped # None
        /\ pc = "awaitLookup" => RequestKinds = <<"lookup">> /\ apps = None
        /\ pc = "awaitScrape" => scraped = None
        /\ pc = "done" => outcome = "ok" /\ appData # None
        /\ pc = "failed" => outcome \notin {"ok", "none"}

\* a step issues at most one request, keeps those issued, and never leaves
\* a terminal state
OneRequestAtATime ==
    /\ ~AppEnded
    /\ Len(requests') <= Len(requests) + 1
    /\ SubSeq(requests', 1, Len(requests)) = requests

\* C13: within one app() call the requests are strictly sequential and
\* never retried: at most one lookup, then at most one app-page request
\* after the lookup returned, then at most one ratings request after the
\* screenshot step finished, three at most whatever fails; and when every
\* issued request returns, the call ends in one terminal state, success or
\* hard failure, which no step leaves.
C13_SequentialRequests ==
    /\ []RequestsInOrder
    /\ [][OneRequestAtATime]_vars
    /\ (op = "app" ~> AppEnded)

\* three requests were issued, the scrape and the ratings request both
\* failed in transport, and the call succeeded
C13_Witness ==
    /\ op = "app"
    /\ pc = "done"
    /\ RequestKinds = <<"lookup", "appPage", "ratings">>
    /\ caught = <<Caught("scrapeScreenshots", "transport error"),
                  Caught("ratings", "transport error")>>

(***************************************************************************)
(* Claims about suggest.                                                   *)
(***************************************************************************)
\* the autocomplete response came back and passed validation
SuggestValidated ==
    /\ op = "suggest"
    /\ pc \in {"done", "failed"}
    /\ outcome \notin {"term is required", "transport error",
                       "Suggest API response validation failed"}

\* the nesting is empty or malformed: plist, dict or array missing, the
\* array a bare string, or the array without dict
Malformed == hints.level # "none" \/ hints.bare \/ hints.dict = None

\* the first string of a dict entry, a scalar taken as a one-element
\* sequence; None when the entry has no string
FirstString(field) ==
    IF field.kind = "scalar" THEN Some(field.values[1])
    ELSE IF field.kind = "array" /\ field.values # <<>>
    THEN Some(field.values[1])
    ELSE None

\* positions of the dict entries that have a non-empty first string
WithTerm ==
    {k \in 1..Len(hints.dict[1]) :
        FirstString(hints.dict[1][k]) \notin {None, Some("")}}

KthWithTerm(k) ==
    CHOOSE p \in WithTerm : Cardinality({q \in WithTerm : q < p}) = k - 1

\* C12 as stated: a validated response gives no error; an empty or
\* malformed nesting gives the empty list; otherwise the list has, in
\* order, one suggestion per dict entry, its term the first string of the
\* entry (a scalar string taken as a one-element sequence).
C12_Original ==
    SuggestValidated =>
        /\ pc = "done"
        /\ IF Malformed THEN suggestions = <<>>
           ELSE /\ Len(suggestions) = Len(hints.dict[1])
                /\ \A k \in 1..Len(suggestions) :
                      Some(suggestions[k].term) = FirstString(hints.dict[1][k])

\* C12 as amended: a validated response gives no error; an empty or
\* malformed nesting gives the empty list; otherwise the list has, in
\* order, one suggestion per dict entry that has a non-empty first string,
\* its term that string (a scalar string taken as a one-element sequence);
\* entries without a string or with an empty first string are skipped.
C12_SuggestDecode ==
    SuggestValidated =>
        /\ pc = "done"
        /\ outcome = "ok"
        /\ IF Malformed THEN suggestions = <<>>
           ELSE /\ Len(suggestions) = Cardinality(WithTerm)
                /\ \A k \in 1..Len(suggestions) :
                      Some(suggestions[k].term) =
                          FirstString(hints.dict[1][KthWithTerm(k)])

\* a scalar entry, an entry whose string is empty and an array entry: two
\* suggestions come out, the empty one skipped
C12_Witness ==
    /\ SuggestValidated
    /\ ~Malformed
    /\ hints.dict[1] = <<StringField("scalar", <<"minecraft">>),
                         StringField("scalar", <<"">>),
                         StringField("array", <<"mine", "minecraft">>)>>
    /\ suggestions = <<[term |-> "minecraft"], [term |-> "mine"]>>

(***************************************************************************)
(* Claims about input validation.                                          *)
(***************************************************************************)
\* the required input of the current operation was not given
RequiredInputMissing ==
    \/ op \in {"search", "suggest"} /\ opts.term = None
    \/ op \in {"ratings", "versionHistory", "privacy"} /\ opts.id = None
    \/ op = "app" /\ opts.id = None /\ opts.appId = None

ValidationError ==
    IF op \in {"search", "suggest"} THEN "term is required"
    ELSE IF op = "app" THEN "Either id or appId is required"
    ELSE "id is required"

\* C5: an operation whose required input is missing fails with its
\* input-validation error, and no transport request was issued.
C5_InputValidation ==
    RequiredInputMissing =>
        /\ pc = "failed"
        /\ outcome = ValidationError
        /\ requests = <<>>

\* suggest() called without a term
C5_Witness ==
    /\ op = "suggest"
    /\ opts.term = None
    /\ pc = "failed"
    /\ requests = <<>>

====
